---- MODULE Spec2Model ----
(***************************************************************************)
(* A model of the optimizer of src/src/optimize.py: the genome codec, the  *)
(* bounded genetic operators, the fitness function, the seeding of the     *)
(* initial population and the life cycle of a run (shared memory, SIGINT,  *)
(* the generational loop).                                                 *)
(*                                                                         *)
(* Python floats are modelled as integers (a fixed-point scale where one   *)
(* is needed is named where it is used).  Parameter names are modelled as  *)
(* the numbers 1..NumParams, whose numeric order stands for the            *)
(* lexicographic order sorted() gives the names.                           *)
(***************************************************************************)
EXTENDS Integers, Sequences, FiniteSets, TLC

\* ---------------------------------------------------------------- bounds
NumParams == 2
OpDims == 2
MaxSeeds == 2
MaxPopulation == 2
MaxIters == 5
MaxSignals == 1

\* ------------------------------------------------------------- variables
VARIABLES
    \* genome codec
    config,        \* the configuration given to config_to_individual
    template,      \* the template given to individual_to_config
    individual,    \* the genome config_to_individual returned
    decoded,       \* the configuration individual_to_config returned
    cpc,           \* "start", "encoded", "decoded", or "IndexError"
    \* fitness function
    analysis,      \* the statistics record given to calc_fitness
    limits,        \* config["optimize"]["limits"]: the three lower bounds
    scoring,       \* config["optimize"]["scoring"]: two metric names
    fitness,       \* what calc_fitness computed: modifier, w_0, w_1
    prev,          \* the record scored before this one, and its modifier
    fpc,           \* "start", "scored"
    \* bounded genetic operators
    low,           \* the lower bound of every dimension
    up,            \* the upper bound of every dimension
    ind1,          \* the first individual (the one mutated)
    ind2,          \* the second individual of a crossover
    deap,          \* what the DEAP operator left in the individuals
    opc,           \* "start", "mated", "mutated"
    \* seeding of the initial population
    seeds,                 \* the files args.starting_configs names
    cfgs,                  \* what get_starting_configs returned
    starting_individuals,  \* what configs_to_individuals returned
    configured_size,       \* config["optimize"]["population_size"] as configured
    population_size,       \* config["optimize"]["population_size"]
    param_bounds,          \* the (low, high) pairs, in sorted key order
    sampled,               \* the population toolbox.population returned
    population,            \* the population
    logged,                \* the number of logging.error calls
    raised_at,             \* the step that raised: "none", "clamp", "evaluate"
    spc,                   \* the position in main
    \* the run: main of optimize.py from the signal registration on
    pc,               \* the statement main is about to execute
    shm,              \* the two shared memory segments
    evaluator_bound,  \* whether main's local `evaluator` is bound
    sigints,          \* the SIGINTs delivered so far
    raised,           \* whether an Exception was raised in the try body
    iters,            \* config["optimize"]["iters"]
    n_seeds,          \* len(starting_individuals)
    mu,               \* config["optimize"]["population_size"]
    pop_len,          \* len(population)
    ngen,             \* the ngen given to eaMuPlusLambda (0: not called yet)
    gen,              \* the generation counter of eaMuPlusLambda
    pending,          \* evaluations of the current batch not finished yet
    left_by,          \* the exception main was left by, "none" while it runs
    \* the pool: the coordinator in toolbox.map, the workers in evaluate
    main_pc,          \* the statement the coordinator is about to execute
    evaluator,        \* self.config, self.exchange_params, self.backtest_params
    shared_np,        \* the contents of the two shared arrays
    segments,         \* the two segments: "linked" or "unlinked"
    batch_no,         \* the batches handed to toolbox.map so far
    taskq,            \* the tasks of the batch no worker has taken yet
    workers,          \* every worker's position in evaluate and its locals
    map_result,       \* the score pairs pool.map has received, by task
    results_file,     \* the result log, character by character
    interrupts,       \* the SIGINTs delivered to the coordinator
    \* the generations: main from the seeding on, and eaMuPlusLambda
    ea_pc,            \* "seed", "evaluate", "vary", "select", "done", "aborted"
    ea_bounds,        \* param_bounds: the (low, high) pairs in sorted key order
    ea_landscape,     \* the score pair evaluate returns for every genome
    ea_mu,            \* config["optimize"]["population_size"]: mu and lambda_
    ea_ngen,          \* the ngen given to eaMuPlusLambda
    ea_gen,           \* the generation counter of eaMuPlusLambda
    ea_population,    \* population: genomes, each with a valid fitness or not
    ea_offspring,     \* offspring: what varOr returned
    ea_union,         \* population + offspring, as handed to toolbox.select last
    ea_chosen,        \* the positions of ea_union toolbox.select returned
    ea_crowding       \* fitness.crowding_dist of the individuals of ea_union

codecVars == <<config, template, individual, decoded, cpc>>
fitVars == <<analysis, limits, scoring, fitness, prev, fpc>>
opVars == <<low, up, ind1, ind2, deap, opc>>
seedVars == <<seeds, cfgs, starting_individuals, configured_size, population_size,
              param_bounds, sampled, population, logged, raised_at, spc>>
runVars == <<pc, shm, evaluator_bound, sigints, raised, iters, n_seeds, mu, pop_len,
             ngen, gen, pending, left_by>>
poolVars == <<main_pc, evaluator, shared_np, segments, batch_no, taskq, workers,
              map_result, results_file, interrupts>>
evoVars == <<ea_pc, ea_bounds, ea_landscape, ea_mu, ea_ngen, ea_gen, ea_population,
             ea_offspring, ea_union, ea_chosen, ea_crowding>>
vars == <<codecVars, fitVars, opVars, seedVars, runVars, poolVars, evoVars>>

\* what the actions of one component leave alone
notCodec == <<fitVars, opVars, seedVars, runVars, poolVars, evoVars>>
notFit == <<codecVars, opVars, seedVars, runVars, poolVars, evoVars>>
notOp == <<codecVars, fitVars, seedVars, runVars, poolVars, evoVars>>
notSeed == <<codecVars, fitVars, opVars, runVars, poolVars, evoVars>>
notRun == <<codecVars, fitVars, opVars, seedVars, poolVars, evoVars>>
notPool == <<codecVars, fitVars, opVars, seedVars, runVars, evoVars>>
notEvo == <<codecVars, fitVars, opVars, seedVars, runVars, poolVars>>

\* ------------------------------------------------------------ helpers
Max(a, b) == IF a >= b THEN a ELSE b
Min(a, b) == IF a <= b THEN a ELSE b

RECURSIVE sorted(_)
\* sorted(S): the elements of a finite set of names in ascending order
sorted(S) ==
    IF S = {} THEN <<>>
    ELSE LET m == CHOOSE x \in S : \A y \in S : x <= y
         IN  <<m>> \o sorted(S \ {m})

\* ------------------------------------------------------------ genome codec
ParamNames == 1..NumParams
Vals == {1, 2}
TemplateVals == {0}
Rests == {"run", "seed"}

\* one side of config["bot"]: a mapping from some parameter names to values
Sides(V) == UNION {[K -> V] : K \in SUBSET ParamNames}

Configs == [bot : [long : Sides(Vals), short : Sides(Vals)], rest : Rests]
Templates == [bot : [long : Sides(TemplateVals), short : Sides(TemplateVals)],
              rest : Rests]

\* [v for k, v in sorted(side.items())]
SideValues(side) ==
    LET keys == sorted(DOMAIN side)
    IN  [i \in 1..Len(keys) |-> side[keys[i]]]

config_to_individual_swapped(cfg) ==
    SideValues(cfg.bot.short) \o SideValues(cfg.bot.long)

config_to_individual(cfg) ==
    SideValues(cfg.bot.long) \o SideValues(cfg.bot.short)

\* config["bot"][pside][key] = value, for the keys of `keys` from genome
\* position `off` + 1 on; a key the side lacks is added
WriteSide(side, keys, ind, off) ==
    [k \in DOMAIN side \cup {keys[i] : i \in 1..Len(keys)} |->
        IF \E i \in 1..Len(keys) : keys[i] = k
        THEN ind[off + (CHOOSE i \in 1..Len(keys) : keys[i] = k)]
        ELSE side[k]]

\* individual[i] raises IndexError when the genome is shorter than the
\* 2 * len(keys) positions the loops of individual_to_config read
IndexError(ind, tmpl) == Len(ind) < 2 * Cardinality(DOMAIN tmpl.bot.long)

\* individual_to_config, when it does not raise: a deep copy of the template
\* with the genome written over its long and short sides (genome positions
\* beyond 2 * len(keys) are ignored)
individual_to_config(ind, tmpl) ==
    LET keys == sorted(DOMAIN tmpl.bot.long)
        n == Len(keys)
    IN  [bot |-> [long |-> WriteSide(tmpl.bot.long, keys, ind, 0),
                  short |-> WriteSide(tmpl.bot.short, keys, ind, n)],
         rest |-> tmpl.rest]

NoConfig == [bot |-> [long |-> <<>>, short |-> <<>>], rest |-> "none"]

CodecInit ==
    /\ config \in Configs
    /\ template \in Templates
    /\ individual = <<>>
    /\ decoded = NoConfig
    /\ cpc = "start"

Encode ==
    /\ cpc = "start"
    /\ individual' = config_to_individual(config)
    /\ cpc' = "encoded"
    /\ UNCHANGED <<config, template, decoded, notCodec>>

Decode ==
    /\ cpc = "encoded"
    /\ IF IndexError(individual, template)
       THEN cpc' = "IndexError" /\ UNCHANGED decoded
       ELSE /\ cpc' = "decoded"
            /\ decoded' = individual_to_config(individual, template)
    /\ UNCHANGED <<config, template, individual, notCodec>>

CodecNext == Encode \/ Decode

\* ------------------------------------------------------- fitness function
\* Statistics are in tenths: 10 stands for 1.0 and 1 for 0.1.
TotalLoss == 10
MinEquityBalanceDiffMax == 1


Metrics == {"mdg", "sharpe_ratio", "loss_profit_ratio"}

\* the statistics records of run_backtest: the maximum of the equity/balance
\* difference is at least its mean
Analyses ==
    {a \in [drawdown_worst : {0, 3, 4, 10},
            equity_balance_diff_mean : {0, 2},
            equity_balance_diff_max : {0, 1, 2},
            loss_profit_ratio : {0, 6, 110},
            mdg : {-1, 2},
            sharpe_ratio : {0, 3}] :
        a.equity_balance_diff_max >= a.equity_balance_diff_mean}

Limits ==
    [drawdown_worst : {0, 3},
     equity_balance_diff_mean : {1},
     loss_profit_ratio : {5}]

\* (max(lower_bound, actual) - lower_bound) * 10**i for one constrained key
Penalty(an, lim, key, i) == (Max(lim[key], an[key]) - lim[key]) * 10^i

PenaltyWeightsFlat(an, lim) ==
      Penalty(an, lim, "drawdown_worst", 3)
    + Penalty(an, lim, "equity_balance_diff_mean", 3)
    + Penalty(an, lim, "loss_profit_ratio", 2)

\* the loop of calc_fitness over (4, drawdown_worst),
\* (3, equity_balance_diff_mean), (2, loss_profit_ratio)
Modifier(an, lim) ==
      Penalty(an, lim, "drawdown_worst", 4)
    + Penalty(an, lim, "equity_balance_diff_mean", 3)
    + Penalty(an, lim, "loss_profit_ratio", 2)

calc_fitness_no_viability(an, lim, sc) ==
    LET modifier == Modifier(an, lim)
    IN  IF an.drawdown_worst >= TotalLoss
        THEN [modifier |-> modifier, w_0 |-> modifier, w_1 |-> modifier]
        ELSE [modifier |-> modifier,
              w_0 |-> modifier - an[sc[1]],
              w_1 |-> modifier - an[sc[2]]]

\* calc_fitness: the returned pair (w_0, w_1), with the local `modifier`
calc_fitness(an, lim, sc) ==
    LET modifier == Modifier(an, lim)
    IN  IF \/ an.drawdown_worst >= TotalLoss
           \/ an.equity_balance_diff_max < MinEquityBalanceDiffMax
        THEN [modifier |-> modifier, w_0 |-> modifier, w_1 |-> modifier]
        ELSE [modifier |-> modifier,
              w_0 |-> modifier - an[sc[1]],
              w_1 |-> modifier - an[sc[2]]]

NoFitness == [modifier |-> 0, w_0 |-> 0, w_1 |-> 0]
NoPrev == [scored |-> FALSE, drawdown_worst |-> 0, equity_balance_diff_mean |-> 0,
           loss_profit_ratio |-> 0, modifier |-> 0]

FitInit ==
    /\ analysis \in Analyses
    /\ limits \in Limits
    /\ scoring \in Metrics \X Metrics
    /\ fitness = NoFitness
    /\ prev = NoPrev
    /\ fpc = "start"

CalcFitness ==
    /\ fpc = "start"
    /\ fitness' = calc_fitness(analysis, limits, scoring)
    /\ fpc' = "scored"
    /\ UNCHANGED <<analysis, limits, scoring, prev, notFit>>

\* the next call of calc_fitness, on another record (the same configuration)
NextAnalysis ==
    /\ fpc = "scored"
    /\ ~prev.scored
    /\ prev' = [scored |-> TRUE,
                drawdown_worst |-> analysis.drawdown_worst,
                equity_balance_diff_mean |-> analysis.equity_balance_diff_mean,
                loss_profit_ratio |-> analysis.loss_profit_ratio,
                modifier |-> fitness.modifier]
    /\ analysis' \in Analyses
    /\ fitness' = NoFitness
    /\ fpc' = "start"
    /\ UNCHANGED <<limits, scoring, notFit>>

FitNext == CalcFitness \/ NextAnalysis

\* ------------------------------------------------- bounded operators
\* One unit of widening stands for the 1e-6 of the wrappers.
Epsilon == 1
BoundPairs == {<<0, 0>>, <<1, 2>>}
GeneVals == {0, 2}
Dims == 1..OpDims

equal_bounds_mask(lo, hi) == [i \in DOMAIN lo |-> lo[i] = hi[i]]

\* the bounds handed to DEAP: a fixed dimension widened by epsilon each way
temp_low(lo, hi) ==
    [i \in DOMAIN lo |-> IF equal_bounds_mask(lo, hi)[i] THEN lo[i] - Epsilon ELSE lo[i]]
temp_up(lo, hi) ==
    [i \in DOMAIN hi |-> IF equal_bounds_mask(lo, hi)[i] THEN hi[i] + Epsilon ELSE hi[i]]

\* tools.mutPolynomialBounded / tools.cxSimulatedBinaryBounded, in place on
\* one individual: a dimension keeps its value or gets any value of
\* [xl, xu] (the operators clamp what they compute into the bounds)
DeapOutcomeSet(ind, xl, xu) ==
    LET choice(i) == {ind[i]} \cup (xl[i]..xu[i])
    IN  {g \in [DOMAIN ind -> UNION {choice(i) : i \in DOMAIN ind}] :
            \A i \in DOMAIN ind : g[i] \in choice(i)}

\* the loop after the DEAP call: individual[i] = low[i] where the mask holds
ResetFixed(ind, lo, hi) ==
    [i \in DOMAIN ind |-> IF equal_bounds_mask(lo, hi)[i] THEN lo[i] ELSE ind[i]]

cxSimulatedBinaryBoundedWrapper_first_only(a, b, lo, hi) ==
    <<ResetFixed(a, lo, hi), b>>

\* cxSimulatedBinaryBoundedWrapper, given what DEAP left in ind1 and ind2
cxSimulatedBinaryBoundedWrapper(a, b, lo, hi) ==
    <<ResetFixed(a, lo, hi), ResetFixed(b, lo, hi)>>

\* mutPolynomialBoundedWrapper, given what DEAP left in the individual
mutPolynomialBoundedWrapper(a, lo, hi) == ResetFixed(a, lo, hi)

OpInit ==
    /\ \E b \in [Dims -> BoundPairs] :
        /\ low = [i \in Dims |-> b[i][1]]
        /\ up = [i \in Dims |-> b[i][2]]
    /\ ind1 \in [Dims -> GeneVals]
    /\ ind2 \in [Dims -> GeneVals]
    /\ deap = <<>>
    /\ opc = "start"

Mate ==
    /\ opc = "start"
    /\ \E c1 \in DeapOutcomeSet(ind1, temp_low(low, up), temp_up(low, up)),
          c2 \in DeapOutcomeSet(ind2, temp_low(low, up), temp_up(low, up)) :
        /\ deap' = <<c1, c2>>
        /\ ind1' = cxSimulatedBinaryBoundedWrapper(c1, c2, low, up)[1]
        /\ ind2' = cxSimulatedBinaryBoundedWrapper(c1, c2, low, up)[2]
    /\ opc' = "mated"
    /\ UNCHANGED <<low, up, notOp>>

Mutate ==
    /\ opc = "start"
    /\ \E m \in DeapOutcomeSet(ind1, temp_low(low, up), temp_up(low, up)) :
        /\ deap' = <<m>>
        /\ ind1' = mutPolynomialBoundedWrapper(m, low, up)
    /\ opc' = "mutated"
    /\ UNCHANGED <<low, up, ind2, notOp>>

OpNext == Mate \/ Mutate

\* ------------------------------------------ seeding the initial population
\* The run's template has the parameters RunParams on both sides, and
\* config["optimize"]["bounds"] one (low, high) pair per side and parameter.
RunParams == {1}
SeedVals == {0, 2}
SeedBounds == {<<<<0, 0>>, <<1, 2>>>>, <<<<2, 2>>, <<1, 2>>>>}

\* the configurations format_config returns for the seed files that load:
\* the run's parameter set on both sides, or another parameter set
SeedConfigs ==
    [bot : [long : [RunParams -> SeedVals], short : [RunParams -> SeedVals]],
     rest : Rests]
    \cup {[bot |-> [long |-> <<0, 0>>, short |-> <<0, 0>>], rest |-> "seed"],
          [bot |-> [long |-> <<>>, short |-> <<>>], rest |-> "seed"]}

\* a seed file: whether load_hjson_config loads it, whether format_config
\* accepts what was loaded, and the formatted configuration
SeedFiles ==
    {[loads |-> FALSE, formats |-> FALSE, cfg |-> NoConfig],
     [loads |-> TRUE, formats |-> FALSE, cfg |-> NoConfig]}
    \cup [loads : {TRUE}, formats : {TRUE}, cfg : SeedConfigs]

RECURSIVE SeqsUpTo(_, _)
SeqsUpTo(S, n) ==
    IF n = 0 THEN {<<>>}
    ELSE LET shorter == SeqsUpTo(S, n - 1)
         IN  shorter \cup {Append(q, x) : q \in {r \in shorter : Len(r) = n - 1}, x \in S}

\* get_starting_configs: the files that load, in order; one logged error
\* for each file that does not
get_starting_configs(files) ==
    LET Loads(f) == f.loads
        loaded == SelectSeq(files, Loads)
    IN  [cfgs |-> [i \in 1..Len(loaded) |-> loaded[i]],
         errors |-> Len(files) - Len(loaded)]

MaxGene == CHOOSE m \in SeedVals : \A v \in SeedVals : v <= m

RECURSIVE calc_hash(_)
\* calc_hash: a digest of the genome (its values and its length), free of
\* collisions
calc_hash(ind) ==
    IF ind = <<>> THEN 0
    ELSE calc_hash(SubSeq(ind, 1, Len(ind) - 1)) * (MaxGene + 2) + ind[Len(ind)] + 1

\* inds[key] = value on an insertion-ordered dict of <<key, value>> pairs
DictSet(inds, key, value) ==
    IF \E i \in 1..Len(inds) : inds[i][1] = key
    THEN [i \in 1..Len(inds) |-> IF inds[i][1] = key THEN <<key, value>> ELSE inds[i]]
    ELSE Append(inds, <<key, value>>)

RECURSIVE FillDict(_, _)
\* the loop of configs_to_individuals over cfgs, from the dict inds on
FillDict(inds, cs) ==
    IF cs = <<>> THEN inds
    ELSE LET cfg == cs[1]
         IN  IF cfg.formats
             THEN LET ind == config_to_individual(cfg.cfg)
                  IN  FillDict(DictSet(inds, calc_hash(ind), ind), Tail(cs))
             ELSE FillDict(inds, Tail(cs))

RECURSIVE KeepAll(_)
KeepAll(cs) ==
    IF cs = <<>> THEN <<>>
    ELSE (IF cs[1].formats THEN <<config_to_individual(cs[1].cfg)>> ELSE <<>>)
         \o KeepAll(Tail(cs))

configs_to_individuals_no_dedup(cs) ==
    LET Formats(c) == c.formats
    IN  [individuals |-> KeepAll(cs),
         errors |-> Len(cs) - Len(SelectSeq(cs, Formats))]

\* configs_to_individuals: list(inds.values()); one logged error for each
\* configuration format_config (or config_to_individual) raises on
configs_to_individuals(cs) ==
    LET Formats(c) == c.formats
        inds == FillDict(<<>>, cs)
    IN  [individuals |-> [i \in 1..Len(inds) |-> inds[i][2]],
         errors |-> Len(cs) - Len(SelectSeq(cs, Formats))]

\* [max(min(x, bounds[z][1]), bounds[z][0]) for z, x in enumerate(seed)],
\* for a seed no longer than the bounds
Adjusted(seed, bounds) ==
    [z \in 1..Len(seed) |-> Max(Min(seed[z], bounds[z][2]), bounds[z][1])]

\* create_individual: one np.random.uniform(low, high) draw per dimension
RandomIndividuals(bounds) ==
    {g \in [1..Len(bounds) -> UNION {bounds[z][1]..bounds[z][2] : z \in 1..Len(bounds)}] :
        \A z \in 1..Len(bounds) : bounds[z][1] <= g[z] /\ g[z] <= bounds[z][2]}

SeedInit ==
    /\ seeds \in SeqsUpTo(SeedFiles, MaxSeeds)
    /\ cfgs = <<>>
    /\ starting_individuals = <<>>
    /\ configured_size \in 1..MaxPopulation
    /\ population_size = configured_size
    /\ param_bounds \in SeedBounds
    /\ sampled = <<>>
    /\ population = <<>>
    /\ logged = 0
    /\ raised_at = "none"
    /\ spc = "start"

GetStartingConfigs ==
    /\ spc = "start"
    /\ cfgs' = get_starting_configs(seeds).cfgs
    /\ logged' = logged + get_starting_configs(seeds).errors
    /\ spc' = "loaded"
    /\ UNCHANGED <<seeds, starting_individuals, configured_size, population_size,
                   param_bounds, sampled, population, raised_at, notSeed>>

ConfigsToIndividuals ==
    /\ spc = "loaded"
    /\ starting_individuals' = configs_to_individuals(cfgs).individuals
    /\ logged' = logged + configs_to_individuals(cfgs).errors
    /\ spc' = "encoded"
    /\ UNCHANGED <<seeds, cfgs, configured_size, population_size, param_bounds,
                   sampled, population, raised_at, notSeed>>

\* main, lines 353-357
RaisePopulationSize ==
    /\ spc = "encoded"
    /\ population_size' = IF Len(starting_individuals) > population_size
                          THEN Len(starting_individuals)
                          ELSE population_size
    /\ spc' = "sized"
    /\ UNCHANGED <<seeds, cfgs, starting_individuals, configured_size, param_bounds,
                   sampled, population, logged, raised_at, notSeed>>

\* main, line 359
CreatePopulation ==
    /\ spc = "sized"
    /\ population' \in [1..population_size -> RandomIndividuals(param_bounds)]
    /\ sampled' = population'
    /\ spc' = "sampled"
    /\ UNCHANGED <<seeds, cfgs, starting_individuals, configured_size, population_size,
                   param_bounds, logged, raised_at, notSeed>>

\* the seeds bounds[z] raises IndexError on: those longer than the bounds
TooLong == {i \in 1..Len(starting_individuals) :
                Len(starting_individuals[i]) > Len(param_bounds)}

\* main, lines 360-367: the seeds before the first one that is too long
\* are written over the first individuals
InsertSeeds ==
    /\ spc = "sampled"
    /\ LET done == IF TooLong = {} THEN Len(starting_individuals)
                   ELSE (CHOOSE i \in TooLong : \A j \in TooLong : i <= j) - 1
       IN  /\ population' = [i \in 1..Len(population) |->
                                IF i <= done
                                THEN Adjusted(starting_individuals[i], param_bounds)
                                ELSE population[i]]
           /\ IF TooLong = {}
              THEN spc' = "populated" /\ UNCHANGED raised_at
              ELSE spc' = "aborted" /\ raised_at' = "clamp"
    /\ UNCHANGED <<seeds, cfgs, starting_individuals, configured_size, population_size,
                   param_bounds, sampled, logged, notSeed>>

RunTemplate ==
    [bot |-> [long |-> [k \in RunParams |-> 0], short |-> [k \in RunParams |-> 0]],
     rest |-> "run"]

\* the first toolbox.map(toolbox.evaluate, population) of eaMuPlusLambda:
\* evaluate decodes every individual against the run's configuration, and
\* an IndexError of a worker is raised again by pool.map
EvaluateInitial ==
    /\ spc = "populated"
    /\ IF \E i \in 1..Len(population) : IndexError(population[i], RunTemplate)
       THEN spc' = "aborted" /\ raised_at' = "evaluate"
       ELSE spc' = "evaluated" /\ UNCHANGED raised_at
    /\ UNCHANGED <<seeds, cfgs, starting_individuals, configured_size, population_size,
                   param_bounds, sampled, population, logged, notSeed>>

SeedNext ==
    \/ GetStartingConfigs
    \/ ConfigsToIndividuals
    \/ RaisePopulationSize
    \/ CreatePopulation
    \/ InsertSeeds
    \/ EvaluateInitial

\* ------------------------------------------------------------ the run
Segments == {"hlcs", "preferred_coins"}

\* a segment: "absent" before SharedMemory(create=True), then "linked",
\* and "unlinked" after unlink(); whether this process closed its mapping;
\* how many times unlink() was called
NoSegment == [state |-> "absent", closed |-> FALSE, unlinks |-> 0]

\* the statements of the try body, and of the finally block with cleanup()
TryBody == {"alloc_hlcs", "alloc_coins", "prep_args", "setup", "seed", "evolve",
            "map", "vary", "extract"}
FinallyBlock == {"finally", "close_hlcs", "unlink_hlcs", "close_coins",
                 "unlink_coins", "sys_exit"}

ngen_without_max(n_iters, n_population) == n_iters \div n_population

\* max(1, int(config["optimize"]["iters"] / len(population)))
ngen_of(n_iters, n_population) == Max(1, n_iters \div n_population)

RunInit ==
    /\ pc = "prepare"
    /\ shm = [s \in Segments |-> NoSegment]
    /\ evaluator_bound = FALSE
    /\ sigints = 0
    /\ raised = FALSE
    /\ iters \in 1..MaxIters
    /\ n_seeds \in 0..MaxSeeds
    /\ mu \in 1..MaxPopulation
    /\ pop_len = 0
    /\ ngen = 0
    /\ gen = 0
    /\ pending = 0
    /\ left_by = "none"

\* main, lines 277-301: everything between signal.signal and the try
Prepare ==
    /\ pc = "prepare"
    /\ pc' = "alloc_hlcs"
    /\ UNCHANGED <<shm, evaluator_bound, sigints, raised, iters, n_seeds, mu, pop_len,
                   ngen, gen, pending, left_by, notRun>>

\* Evaluator.__init__, lines 150-156
AllocHlcs ==
    /\ pc = "alloc_hlcs"
    /\ shm' = [shm EXCEPT !["hlcs"].state = "linked"]
    /\ pc' = "alloc_coins"
    /\ UNCHANGED <<evaluator_bound, sigints, raised, iters, n_seeds, mu, pop_len,
                   ngen, gen, pending, left_by, notRun>>

\* Evaluator.__init__, lines 158-168
AllocCoins ==
    /\ pc = "alloc_coins"
    /\ shm' = [shm EXCEPT !["preferred_coins"].state = "linked"]
    /\ pc' = "prep_args"
    /\ UNCHANGED <<evaluator_bound, sigints, raised, iters, n_seeds, mu, pop_len,
                   ngen, gen, pending, left_by, notRun>>

\* Evaluator.__init__, lines 169-171, and the assignment of line 303
PrepArgs ==
    /\ pc = "prep_args"
    /\ evaluator_bound' = TRUE
    /\ pc' = "setup"
    /\ UNCHANGED <<shm, sigints, raised, iters, n_seeds, mu, pop_len,
                   ngen, gen, pending, left_by, notRun>>

\* main, lines 304-348: the DEAP types, the toolbox, the pool
Setup ==
    /\ pc = "setup"
    /\ pc' = "seed"
    /\ UNCHANGED <<shm, evaluator_bound, sigints, raised, iters, n_seeds, mu, pop_len,
                   ngen, gen, pending, left_by, notRun>>

\* main, lines 352-369: the population size raised to the number of seeds,
\* and the population of that size
SeedPopulation ==
    /\ pc = "seed"
    /\ mu' = Max(mu, n_seeds)
    /\ pop_len' = Max(mu, n_seeds)
    /\ pc' = "evolve"
    /\ UNCHANGED <<shm, evaluator_bound, sigints, raised, iters, n_seeds,
                   ngen, gen, pending, left_by, notRun>>

\* main, lines 384-395: the call of eaMuPlusLambda, which first hands the
\* whole population to toolbox.map
StartEvolve ==
    /\ pc = "evolve"
    /\ ngen' = ngen_of(iters, pop_len)
    /\ gen' = 0
    /\ pending' = pop_len
    /\ pc' = "map"
    /\ UNCHANGED <<shm, evaluator_bound, sigints, raised, iters, n_seeds, mu, pop_len,
                   left_by, notRun>>

\* a worker of the pool finishes one Evaluator.evaluate of the batch
WorkerEvaluate ==
    /\ pc # "exited"
    /\ pending > 0
    /\ pending' = pending - 1
    /\ UNCHANGED <<pc, shm, evaluator_bound, sigints, raised, iters, n_seeds, mu,
                   pop_len, ngen, gen, left_by, notRun>>

\* pool.map returns once the whole batch is evaluated; eaMuPlusLambda
\* selects mu survivors and goes on to the next generation, or returns
\* after generation ngen
MapReturn ==
    /\ pc = "map"
    /\ pending = 0
    /\ pc' = IF gen < ngen THEN "vary" ELSE "extract"
    /\ UNCHANGED <<shm, evaluator_bound, sigints, raised, iters, n_seeds, mu, pop_len,
                   ngen, gen, pending, left_by, notRun>>

\* eaMuPlusLambda, one turn of `for gen in range(1, ngen + 1)`: varOr makes
\* lambda_ = mu offspring, and those with an invalid fitness are handed to
\* toolbox.map
Vary ==
    /\ pc = "vary"
    /\ gen' = gen + 1
    /\ pending' \in 0..mu
    /\ pc' = "map"
    /\ UNCHANGED <<shm, evaluator_bound, sigints, raised, iters, n_seeds, mu, pop_len,
                   ngen, left_by, notRun>>

\* main, lines 397-411: the logbook, and extract_best_config in a try of
\* its own
ExtractBest ==
    /\ pc = "extract"
    /\ pc' = "finally"
    /\ UNCHANGED <<shm, evaluator_bound, sigints, raised, iters, n_seeds, mu, pop_len,
                   ngen, gen, pending, left_by, notRun>>

\* a statement of the try body raises an Exception (pool.map raises a
\* worker's exception once the whole batch has ended): main, line 413
RaiseError ==
    /\ pc \in TryBody \ {"extract"}
    /\ pc = "map" => pending = 0
    /\ raised' = TRUE
    /\ pc' = "except"
    /\ UNCHANGED <<shm, evaluator_bound, sigints, iters, n_seeds, mu, pop_len,
                   ngen, gen, pending, left_by, notRun>>

\* main, line 414
PrintTraceback ==
    /\ pc = "except"
    /\ pc' = "finally"
    /\ UNCHANGED <<shm, evaluator_bound, sigints, raised, iters, n_seeds, mu, pop_len,
                   ngen, gen, pending, left_by, notRun>>

\* main, lines 417-418: the log line, then evaluator.cleanup, which is an
\* UnboundLocalError out of main when Evaluator(...) did not return
FinallyCleanup ==
    /\ pc = "finally"
    /\ pc' = IF evaluator_bound THEN "close_hlcs" ELSE "exited"
    /\ left_by' = IF evaluator_bound THEN left_by ELSE "UnboundLocalError"
    /\ UNCHANGED <<shm, evaluator_bound, sigints, raised, iters, n_seeds, mu, pop_len,
                   ngen, gen, pending, notRun>>

\* SharedMemory.close / SharedMemory.unlink on one segment
Close(s) == [shm EXCEPT ![s].closed = TRUE]
Unlink(s) == [shm EXCEPT ![s].state = "unlinked", ![s].unlinks = @ + 1]

\* Evaluator.cleanup, line 211
CloseHlcs ==
    /\ pc = "close_hlcs"
    /\ shm' = Close("hlcs")
    /\ pc' = "unlink_hlcs"
    /\ UNCHANGED <<evaluator_bound, sigints, raised, iters, n_seeds, mu, pop_len,
                   ngen, gen, pending, left_by, notRun>>

\* Evaluator.cleanup, line 212
UnlinkHlcs ==
    /\ pc = "unlink_hlcs"
    /\ shm' = Unlink("hlcs")
    /\ pc' = "close_coins"
    /\ UNCHANGED <<evaluator_bound, sigints, raised, iters, n_seeds, mu, pop_len,
                   ngen, gen, pending, left_by, notRun>>

\* Evaluator.cleanup, line 213
CloseCoins ==
    /\ pc = "close_coins"
    /\ shm' = Close("preferred_coins")
    /\ pc' = "unlink_coins"
    /\ UNCHANGED <<evaluator_bound, sigints, raised, iters, n_seeds, mu, pop_len,
                   ngen, gen, pending, left_by, notRun>>

\* Evaluator.cleanup, line 214
UnlinkCoins ==
    /\ pc = "unlink_coins"
    /\ shm' = Unlink("preferred_coins")
    /\ pc' = "sys_exit"
    /\ UNCHANGED <<evaluator_bound, sigints, raised, iters, n_seeds, mu, pop_len,
                   ngen, gen, pending, left_by, notRun>>

\* main, line 419
SysExit ==
    /\ pc = "sys_exit"
    /\ pc' = "exited"
    /\ left_by' = "SystemExit"
    /\ UNCHANGED <<shm, evaluator_bound, sigints, raised, iters, n_seeds, mu, pop_len,
                   ngen, gen, pending, notRun>>

\* where the SystemExit of signal_handler takes main: raised in the try
\* body or in the except clause it is no Exception and reaches the finally
\* block; raised before the try or inside the finally block it leaves main
AfterSystemExit(at) ==
    IF at \in TryBody \cup {"except"} THEN "finally" ELSE "exited"

\* SIGINT: signal_handler runs in the main thread, between two statements
\* or inside a blocking call, and raises SystemExit there
Sigint ==
    /\ pc # "exited"
    /\ sigints < MaxSignals
    /\ sigints' = sigints + 1
    /\ pc' = AfterSystemExit(pc)
    /\ left_by' = IF AfterSystemExit(pc) = "exited" THEN "SystemExit" ELSE left_by
    /\ UNCHANGED <<shm, evaluator_bound, raised, iters, n_seeds, mu, pop_len,
                   ngen, gen, pending, notRun>>

Next ==
    \/ Prepare
    \/ AllocHlcs
    \/ AllocCoins
    \/ PrepArgs
    \/ Setup
    \/ SeedPopulation
    \/ StartEvolve
    \/ WorkerEvaluate
    \/ MapReturn
    \/ Vary
    \/ ExtractBest
    \/ RaiseError
    \/ PrintTraceback
    \/ FinallyCleanup
    \/ CloseHlcs
    \/ UnlinkHlcs
    \/ CloseCoins
    \/ UnlinkCoins
    \/ SysExit
    \/ Sigint

\* ------------------------------------------------ the pool and evaluate
\* One toolbox.map call hands a batch of individuals to the workers of the
\* pool; every worker runs Evaluator.evaluate on one individual at a time.
PoolWorkers == {"w1", "w2"}
MaxEvaluations == 2

\* the individuals of a batch: genomes of the length the run's template
\* needs
PoolGenomes == {<<1, 2>>, <<2, 1>>}

\* what run_backtest may return for a configuration
PoolAnalyses ==
    {[drawdown_worst |-> 0, equity_balance_diff_mean |-> 0,
      equity_balance_diff_max |-> 2, loss_profit_ratio |-> 0,
      mdg |-> 2, sharpe_ratio |-> 3],
     [drawdown_worst |-> 4, equity_balance_diff_mean |-> 0,
      equity_balance_diff_max |-> 2, loss_profit_ratio |-> 6,
      mdg |-> -1, sharpe_ratio |-> 0]}

\* config["optimize"]["limits"] and config["optimize"]["scoring"] of the run
PoolLimits ==
    [drawdown_worst |-> 3, equity_balance_diff_mean |-> 1, loss_profit_ratio |-> 5]
PoolScoring == <<"mdg", "sharpe_ratio">>

NoAnalysis ==
    [drawdown_worst |-> 0, equity_balance_diff_mean |-> 0,
     equity_balance_diff_max |-> 0, loss_profit_ratio |-> 0,
     mdg |-> 0, sharpe_ratio |-> 0]
NoScores == [w_0 |-> 0, w_1 |-> 0]

\* a worker outside evaluate
IdleWorker ==
    [step |-> "idle", task |-> 0, individual |-> <<>>, config |-> NoConfig,
     analysis |-> NoAnalysis, scores |-> NoScores, f |-> <<>>, syscalls |-> <<>>]

decode_store_aliased(ind, tmpl) ==
    [template |-> individual_to_config(ind, tmpl),
     config |-> individual_to_config(ind, tmpl),
     individual |-> ind]

\* individual_to_config on the objects it is given: the template (left as
\* it is, the writes go to a deepcopy), the configuration returned, and the
\* individual (only read)
decode_store(ind, tmpl) ==
    [template |-> tmpl,
     config |-> individual_to_config(ind, tmpl),
     individual |-> ind]

\* prep_backtest_args(config, [], exchange_params=..., backtest_params=...):
\* the two precomputed structures are passed through
prep_backtest_args(ev) ==
    [exchange_params |-> ev.exchange_params, backtest_params |-> ev.backtest_params]

\* pbr.run_backtest: a statistics record; the arrays are only read
run_backtest(arrays, an) == [analysis |-> an, arrays |-> arrays]

\* json.dumps(denumpyize({"analysis": analysis, "config": config})) + "\n":
\* the text of one record, and the newline that ends it; `eval` is the task
\* the text comes from
record_line(eval, an, sc, cfg) ==
    <<[eval |-> eval, ch |-> "json", analysis |-> an, scores |-> sc, config |-> cfg],
      [eval |-> eval, ch |-> "\n", analysis |-> NoAnalysis, scores |-> NoScores,
       config |-> NoConfig]>>

file_write_dropped(buffer, text) == buffer

\* f.write(text) on the buffered file object
file_write(buffer, text) == buffer \o text

os_writes_per_char(buffer) == [i \in 1..Len(buffer) |-> <<buffer[i]>>]

\* the write system calls that flush the buffer when the file is closed:
\* one call with the whole buffer
os_writes(buffer) == IF buffer = <<>> THEN <<>> ELSE <<buffer>>

\* the tasks of the batch handed to pool.map last
BatchTasks == {t \in 1..Len(map_result) : map_result[t].batch = batch_no}

\* the number of tasks of that batch without a result
number_left == Cardinality({t \in BatchTasks : map_result[t].state = "pending"})

map_async_ready(n_left) == TRUE

\* MapResult: the event pool.map waits for is set once no task is left
map_ready(n_left) == n_left = 0

PoolInit ==
    /\ main_pc = "map_call"
    /\ evaluator = [config |-> RunTemplate, exchange_params |-> "exchange_params",
                    backtest_params |-> "backtest_params"]
    /\ shared_np = [hlcs |-> "hlcs", preferred_coins |-> "preferred_coins"]
    /\ segments = [s \in Segments |-> "linked"]
    /\ batch_no = 0
    /\ taskq = <<>>
    /\ workers = [w \in PoolWorkers |-> IdleWorker]
    /\ map_result = <<>>
    /\ results_file = <<>>
    /\ interrupts = 0

\* toolbox.map(toolbox.evaluate, invalid_ind): the individuals without a
\* valid fitness become the tasks of a new batch
PoolMapCall ==
    /\ main_pc = "map_call"
    /\ \E n \in 1..(MaxEvaluations - Len(map_result)) :
       \E inds \in [1..n -> PoolGenomes] :
        /\ map_result' = map_result \o
               [i \in 1..n |-> [batch |-> batch_no + 1, individual |-> inds[i],
                                state |-> "pending", scores |-> NoScores]]
        /\ taskq' = [i \in 1..n |-> Len(map_result) + i]
    /\ batch_no' = batch_no + 1
    /\ main_pc' = "map_wait"
    /\ UNCHANGED <<evaluator, shared_np, segments, workers, results_file, interrupts,
                   notPool>>

\* a worker takes the next task from the pool's queue
TakeTask ==
    /\ main_pc # "exited"
    /\ taskq # <<>>
    /\ \E w \in PoolWorkers :
        /\ workers[w].step = "idle"
        /\ workers' = [workers EXCEPT ![w] =
               [IdleWorker EXCEPT !.step = "decode", !.task = Head(taskq),
                                  !.individual = map_result[Head(taskq)].individual]]
    /\ taskq' = Tail(taskq)
    /\ UNCHANGED <<main_pc, evaluator, shared_np, segments, batch_no, map_result,
                   results_file, interrupts, notPool>>

\* evaluate, line 174
EvalDecode ==
    /\ main_pc # "exited"
    /\ \E w \in PoolWorkers :
        /\ workers[w].step = "decode"
        /\ LET store == decode_store(workers[w].individual, evaluator.config)
           IN  /\ evaluator' = [evaluator EXCEPT !.config = store.template]
               /\ workers' = [workers EXCEPT ![w].step = "backtest",
                                             ![w].config = store.config,
                                             ![w].individual = store.individual]
    /\ UNCHANGED <<main_pc, shared_np, segments, batch_no, taskq, map_result,
                   results_file, interrupts, notPool>>

\* evaluate, lines 175-184: the engine reads both shared arrays
EvalBacktest ==
    /\ main_pc # "exited"
    /\ \E w \in PoolWorkers :
        /\ workers[w].step = "backtest"
        /\ \/ \E an \in PoolAnalyses :
                /\ workers' = [workers EXCEPT
                       ![w].step = "fitness",
                       ![w].analysis = run_backtest(shared_np, an).analysis]
                /\ shared_np' = run_backtest(shared_np, an).arrays
           \/ /\ workers' = [workers EXCEPT ![w].step = "raise"]
              /\ UNCHANGED shared_np
    /\ evaluator' = [evaluator EXCEPT
           !.exchange_params = prep_backtest_args(evaluator).exchange_params,
           !.backtest_params = prep_backtest_args(evaluator).backtest_params]
    /\ UNCHANGED <<main_pc, segments, batch_no, taskq, map_result, results_file,
                   interrupts, notPool>>

\* evaluate, lines 185-186
EvalFitness ==
    /\ main_pc # "exited"
    /\ \E w \in PoolWorkers :
        /\ workers[w].step = "fitness"
        /\ LET fit == calc_fitness(workers[w].analysis, PoolLimits, PoolScoring)
           IN  workers' = [workers EXCEPT
                   ![w].step = "open",
                   ![w].scores = [w_0 |-> fit.w_0, w_1 |-> fit.w_1]]
    /\ UNCHANGED <<main_pc, evaluator, shared_np, segments, batch_no, taskq,
                   map_result, results_file, interrupts, notPool>>

\* evaluate, line 187: open(results_filename, "a")
EvalOpen ==
    /\ main_pc # "exited"
    /\ \E w \in PoolWorkers :
        /\ workers[w].step = "open"
        /\ workers' = [workers EXCEPT ![w].step = "write", ![w].f = <<>>]
    /\ UNCHANGED <<main_pc, evaluator, shared_np, segments, batch_no, taskq,
                   map_result, results_file, interrupts, notPool>>

\* evaluate, line 188
EvalWrite ==
    /\ main_pc # "exited"
    /\ \E w \in PoolWorkers :
        /\ workers[w].step = "write"
        /\ workers' = [workers EXCEPT
               ![w].step = "close",
               ![w].f = file_write(workers[w].f,
                                   record_line(workers[w].task, workers[w].analysis,
                                               workers[w].scores, workers[w].config))]
    /\ UNCHANGED <<main_pc, evaluator, shared_np, segments, batch_no, taskq,
                   map_result, results_file, interrupts, notPool>>

\* evaluate, the end of the with block of line 187: close() flushes the
\* buffer
EvalClose ==
    /\ main_pc # "exited"
    /\ \E w \in PoolWorkers :
        /\ workers[w].step = "close"
        /\ workers' = [workers EXCEPT
               ![w].step = IF os_writes(workers[w].f) = <<>> THEN "return" ELSE "flush",
               ![w].syscalls = os_writes(workers[w].f),
               ![w].f = <<>>]
    /\ UNCHANGED <<main_pc, evaluator, shared_np, segments, batch_no, taskq,
                   map_result, results_file, interrupts, notPool>>

\* one write call on the file opened for appending: its bytes go to the end
\* of the file in one piece
EvalFlush ==
    /\ main_pc # "exited"
    /\ \E w \in PoolWorkers :
        /\ workers[w].step = "flush"
        /\ results_file' = results_file \o Head(workers[w].syscalls)
        /\ workers' = [workers EXCEPT
               ![w].step = IF Tail(workers[w].syscalls) = <<>> THEN "return" ELSE "flush",
               ![w].syscalls = Tail(workers[w].syscalls)]
    /\ UNCHANGED <<main_pc, evaluator, shared_np, segments, batch_no, taskq,
                   map_result, interrupts, notPool>>

\* evaluate, line 189: the score pair goes back to the coordinator
EvalReturn ==
    /\ main_pc # "exited"
    /\ \E w \in PoolWorkers :
        /\ workers[w].step = "return"
        /\ map_result' = [map_result EXCEPT ![workers[w].task].state = "ok",
                                            ![workers[w].task].scores = workers[w].scores]
        /\ workers' = [workers EXCEPT ![w] = IdleWorker]
    /\ UNCHANGED <<main_pc, evaluator, shared_np, segments, batch_no, taskq,
                   results_file, interrupts, notPool>>

\* evaluate raised: the exception goes back to the coordinator in place of
\* a score pair
EvalRaise ==
    /\ main_pc # "exited"
    /\ \E w \in PoolWorkers :
        /\ workers[w].step = "raise"
        /\ map_result' = [map_result EXCEPT ![workers[w].task].state = "raised"]
        /\ workers' = [workers EXCEPT ![w] = IdleWorker]
    /\ UNCHANGED <<main_pc, evaluator, shared_np, segments, batch_no, taskq,
                   results_file, interrupts, notPool>>

\* pool.map returns the list of score pairs, or raises the exception of a
\* task
PoolMapReturn ==
    /\ main_pc = "map_wait"
    /\ map_ready(number_left)
    /\ main_pc' = IF \E t \in BatchTasks : map_result[t].state = "raised"
                  THEN "except" ELSE "generation"
    /\ UNCHANGED <<evaluator, shared_np, segments, batch_no, taskq, workers,
                   map_result, results_file, interrupts, notPool>>


\* eaMuPlusLambda between two toolbox.map calls: the survivors of the
\* generation are selected and varOr makes the next offspring
PoolVary ==
    /\ main_pc = "generation"
    /\ Len(map_result) < MaxEvaluations
    /\ main_pc' = "map_call"
    /\ UNCHANGED <<evaluator, shared_np, segments, batch_no, taskq, workers,
                   map_result, results_file, interrupts, notPool>>

\* eaMuPlusLambda returns after its last generation; main, lines 397-411
PoolLoopEnd ==
    /\ main_pc = "generation"
    /\ main_pc' = "finally"
    /\ UNCHANGED <<evaluator, shared_np, segments, batch_no, taskq, workers,
                   map_result, results_file, interrupts, notPool>>

\* main, lines 413-414
PoolPrintTraceback ==
    /\ main_pc = "except"
    /\ main_pc' = "finally"
    /\ UNCHANGED <<evaluator, shared_np, segments, batch_no, taskq, workers,
                   map_result, results_file, interrupts, notPool>>

\* main, lines 417-418: evaluator.cleanup closes and unlinks the hlcs
\* segment (lines 211-212)
PoolCleanupHlcs ==
    /\ main_pc = "finally"
    /\ segments' = [segments EXCEPT !["hlcs"] = "unlinked"]
    /\ main_pc' = "cleanup_coins"
    /\ UNCHANGED <<evaluator, shared_np, batch_no, taskq, workers, map_result,
                   results_file, interrupts, notPool>>

\* Evaluator.cleanup, lines 213-214
PoolCleanupCoins ==
    /\ main_pc = "cleanup_coins"
    /\ segments' = [segments EXCEPT !["preferred_coins"] = "unlinked"]
    /\ main_pc' = "sys_exit"
    /\ UNCHANGED <<evaluator, shared_np, batch_no, taskq, workers, map_result,
                   results_file, interrupts, notPool>>

\* main, line 419: the process exits, and its daemonic workers with it
PoolSysExit ==
    /\ main_pc = "sys_exit"
    /\ main_pc' = "exited"
    /\ UNCHANGED <<evaluator, shared_np, segments, batch_no, taskq, workers,
                   map_result, results_file, interrupts, notPool>>

\* the statements of the coordinator inside the try, and inside the finally
PoolTryBody == {"map_call", "map_wait", "generation", "except"}

\* SIGINT in the coordinator: signal_handler raises SystemExit where the
\* coordinator is, also while it waits in pool.map; the try is left for the
\* finally block, the finally block for the exit
PoolSigint ==
    /\ main_pc # "exited"
    /\ interrupts < MaxSignals
    /\ interrupts' = interrupts + 1
    /\ main_pc' = IF main_pc \in PoolTryBody THEN "finally" ELSE "exited"
    /\ UNCHANGED <<evaluator, shared_np, segments, batch_no, taskq, workers,
                   map_result, results_file, notPool>>

PoolNext ==
    \/ PoolMapCall
    \/ TakeTask
    \/ EvalDecode
    \/ EvalBacktest
    \/ EvalFitness
    \/ EvalOpen
    \/ EvalWrite
    \/ EvalClose
    \/ EvalFlush
    \/ EvalReturn
    \/ EvalRaise
    \/ PoolMapReturn
    \/ PoolVary
    \/ PoolLoopEnd
    \/ PoolPrintTraceback
    \/ PoolCleanupHlcs
    \/ PoolCleanupCoins
    \/ PoolSysExit
    \/ PoolSigint

\* ------------------------------------------ the generations of the run
\* main, lines 352-395, with the population itself: the individuals are
\* genomes, and the fitness of a genome is what evaluate returns for it.
MaxGenerations == 2

\* config["optimize"]["bounds"], in sorted key order: the first dimension
\* fixed, the second free
EvoBounds == {<<<<0, 0>>, <<1, 3>>>>}

\* the two scores of an evaluation, both minimised, by the value of the
\* free dimension: a trade-off, a chain, a trade-off with a dominated
\* value, and two equal values
FitnessShapes ==
    {<<<<0, 2>>, <<1, 1>>, <<2, 0>>>>,
     <<<<0, 0>>, <<1, 1>>, <<2, 2>>>>,
     <<<<0, 2>>, <<2, 0>>, <<2, 2>>>>,
     <<<<1, 1>>, <<1, 1>>, <<0, 2>>>>}

\* the genomes of the seeds: outside the bounds, and of another length
\* than the run's
EvoSeeds == {<<0, 5>>, <<2>>, <<0, 2, 0>>}

\* fit_a.dominates(fit_b) with weights (-1.0, -1.0): no score of a is
\* larger and one is smaller
dominates(a, b) == a[1] <= b[1] /\ a[2] <= b[2] /\ a # b

\* a Python list: its items themselves, each worked out when the list is
\* built
List(items) == items \o <<>>

\* sortNondominated: the distinct fitness values, in the order of their
\* first individual (the keys of map_fit_ind)
fits(fs) ==
    LET firsts == {i \in 1..Len(fs) : \A j \in 1..(i - 1) : fs[j] # fs[i]}
        order == sorted(firsts)
    IN  List([n \in 1..Len(order) |-> fs[order[n]]])

\* map_fit_ind[fit]: the individuals of one fitness value, in their order
map_fit_ind(fs, fit) == sorted({i \in 1..Len(fs) : fs[i] = fit})

RECURSIVE Flatten(_)
Flatten(seqs) == IF seqs = <<>> THEN <<>> ELSE Head(seqs) \o Flatten(Tail(seqs))

\* the individuals of a front given by its fitness values (positions in
\* `fit`, the list of the distinct fitness values)
front_individuals(fs, fit, front) ==
    Flatten([n \in 1..Len(front) |-> map_fit_ind(fs, fit[front[n]])])

\* dominated_fits[fit_p]: the fitness values p dominates, in the order the
\* double loop appends them
dominated_fits(fit, p) ==
    sorted({d \in 1..Len(fit) : dominates(fit[p], fit[d])})

RECURSIVE next_front(_, _, _)
\* one turn of the while loop of sortNondominated: the counters of the
\* fitness values in `ds` go down by one each, in order, and a value whose
\* counter reaches 0 joins the next front
next_front(ds, counts, front) ==
    IF ds = <<>> THEN [counts |-> counts, front |-> front]
    ELSE LET d == Head(ds)
         IN  next_front(Tail(ds), [counts EXCEPT ![d] = @ - 1],
                        IF counts[d] = 1 THEN Append(front, d) ELSE front)

RECURSIVE more_fronts(_, _, _, _, _, _)
\* the while loop of sortNondominated, until N individuals are sorted
more_fronts(fs, fit, current_front, counts, fronts, N) ==
    IF Len(Flatten(fronts)) >= N THEN fronts
    ELSE LET ds == Flatten([n \in 1..Len(current_front) |->
                                dominated_fits(fit, current_front[n])])
             nf == next_front(ds, counts, <<>>)
         IN  more_fronts(fs, fit, nf.front, nf.counts,
                         Append(fronts, front_individuals(fs, fit, nf.front)), N)

\* sortNondominated(individuals, k): the Pareto fronts, each a list of
\* individuals (positions in `individuals`), until k individuals are sorted
sortNondominated(fs, k) ==
    IF k = 0 THEN <<>>
    ELSE LET fit == fits(fs)
             dominating_fits ==
                 List([d \in 1..Len(fit) |->
                     Cardinality({p \in 1..Len(fit) : dominates(fit[p], fit[d])})])
             first == sorted({d \in 1..Len(fit) : dominating_fits[d] = 0})
         IN  more_fronts(fs, fit, first, dominating_fits,
                         <<front_individuals(fs, fit, first)>>, Min(Len(fs), k))

\* list.sort(key=...) and sorted(..., reverse=True): stable, so elements of
\* equal key keep their order
sort_by_key(seq, key) ==
    LET place == List([p \in 1..Len(seq) |->
                    1 + Cardinality({q \in 1..Len(seq) :
                        key[q] < key[p] \/ (key[q] = key[p] /\ q < p)})])
    IN  List([r \in 1..Len(seq) |-> seq[CHOOSE p \in 1..Len(seq) : place[p] = r]])
sort_by_key_reverse(seq, key) ==
    LET place == List([p \in 1..Len(seq) |->
                    1 + Cardinality({q \in 1..Len(seq) :
                        key[q] > key[p] \/ (key[q] = key[p] /\ q < p)})])
    IN  List([r \in 1..Len(seq) |-> seq[CHOOSE p \in 1..Len(seq) : place[p] = r]])

\* the number of objectives
nobj == 2

\* assignCrowdingDist(front): the crowding distance of every individual of
\* the front, by its position in the front.  The distances of one front are
\* in units of 1 / (norm of objective 1 * norm of objective 2); the infinity
\* of the two ends of every objective is one more than what the sum of the
\* gaps can reach.
assignCrowdingDist(fs, front) ==
    LET n == Len(front)
        values == List([p \in 1..n |-> fs[front[p]]])
        crowd1 == sort_by_key(List([p \in 1..n |-> p]),
                              List([p \in 1..n |-> values[p][1]]))
        crowd2 == sort_by_key(crowd1, List([r \in 1..n |-> values[crowd1[r]][2]]))
        crowd == <<crowd1, crowd2>>
        norm == List([i \in 1..nobj |->
                    nobj * (values[crowd[i][n]][i] - values[crowd[i][1]][i])])
        unit == List([i \in 1..nobj |-> IF norm[i] = 0 THEN 1 ELSE norm[i]])
        scale == unit[1] * unit[2]
        at == List([i \in 1..nobj |->
                    List([p \in 1..n |-> CHOOSE r \in 1..n : crowd[i][r] = p])])
        ends(p) == \E i \in 1..nobj : at[i][p] \in {1, n}
        gap(p, i) ==
            IF norm[i] = 0 \/ at[i][p] \in {1, n} THEN 0
            ELSE (values[crowd[i][at[i][p] + 1]][i] - values[crowd[i][at[i][p] - 1]][i])
                 * (scale \div norm[i])
    IN  List([p \in 1..n |-> IF ends(p) THEN scale + 1 ELSE gap(p, 1) + gap(p, 2)])

selBest_first(fs, k) == [i \in 1..Min(k, Len(fs)) |-> i]

\* tools.selNSGA2(individuals, k): every front but the last one, then the
\* individuals of the last front with the largest crowding distances
selNSGA2(fs, k) ==
    LET pareto_fronts == sortNondominated(fs, k)
        n == Len(pareto_fronts)
        chosen == Flatten(SubSeq(pareto_fronts, 1, n - 1))
        last == pareto_fronts[n]
        sorted_front == sort_by_key_reverse(last, assignCrowdingDist(fs, last))
    IN  IF k = 0 THEN <<>>
        ELSE chosen \o SubSeq(sorted_front, 1, k - Len(chosen))

\* the low and up lists of the registered operators
low_of(bounds) == [z \in 1..Len(bounds) |-> bounds[z][1]]
up_of(bounds) == [z \in 1..Len(bounds) |-> bounds[z][2]]

\* the lists of seeds configs_to_individuals may return: no genome twice
EvoSeedLists ==
    {q \in SeqsUpTo(EvoSeeds, MaxSeeds) :
        \A i, j \in 1..Len(q) : i # j => q[i] # q[j]}

\* what evaluate returns for the genomes of the bounds
Landscapes(bounds) ==
    {[g \in RandomIndividuals(bounds) |-> shape[g[Len(bounds)]]] :
        shape \in FitnessShapes}

\* ind.fitness.values of the individuals of a list
fitness_values(inds) == List([i \in 1..Len(inds) |-> ea_landscape[inds[i]]])

\* varOr, one offspring: the first child of toolbox.mate on the clones of
\* two different individuals, or toolbox.mutate on the clone of one, or an
\* individual of the population as it is
varOr_children(pop, bounds) ==
    LET lo == low_of(bounds)
        hi == up_of(bounds)
        touched(g) == DeapOutcomeSet(g, temp_low(lo, hi), temp_up(lo, hi))
    IN  {cxSimulatedBinaryBoundedWrapper(c1, c2, lo, hi)[1] :
            c1 \in UNION {touched(pop[i]) : i \in 1..Len(pop)},
            c2 \in UNION {touched(pop[i]) : i \in 1..Len(pop)}}
        \cup {mutPolynomialBoundedWrapper(m, lo, hi) :
                m \in UNION {touched(pop[i]) : i \in 1..Len(pop)}}
        \cup {pop[i] : i \in 1..Len(pop)}

\* fitness.crowding_dist after selNSGA2: set by assignCrowdingDist for the
\* individuals of the fronts sortNondominated returned
crowding_dist(fs, k) ==
    LET pareto_fronts == sortNondominated(fs, k)
        dists == List([n \in 1..Len(pareto_fronts) |->
                    assignCrowdingDist(fs, pareto_fronts[n])])
        places(i) == {<<n, p>> \in (1..Len(pareto_fronts)) \X (1..Len(fs)) :
                        p <= Len(pareto_fronts[n]) /\ pareto_fronts[n][p] = i}
    IN  [i \in 1..Len(fs) |->
            IF places(i) = {} THEN 0
            ELSE LET np == CHOOSE np \in places(i) : TRUE IN dists[np[1]][np[2]]]

EvoInit ==
    /\ ea_pc = "seed"
    /\ ea_bounds \in EvoBounds
    /\ ea_landscape \in Landscapes(ea_bounds)
    /\ ea_mu \in 1..MaxPopulation
    /\ ea_ngen = MaxGenerations
    /\ ea_gen = 0
    /\ ea_population = <<>>
    /\ ea_offspring = <<>>
    /\ ea_union = <<>>
    /\ ea_chosen = <<>>
    /\ ea_crowding = <<>>

\* main, lines 352-367: the population size raised to the number of seeds,
\* the random population, and the clamped seeds written over its first
\* individuals; bounds[z] raises IndexError for a seed longer than the bounds
EvoSeed ==
    /\ ea_pc = "seed"
    /\ \E starting \in EvoSeedLists :
        LET size == Max(ea_mu, Len(starting))
            too_long == {i \in 1..Len(starting) : Len(starting[i]) > Len(ea_bounds)}
            done == IF too_long = {} THEN Len(starting)
                    ELSE (CHOOSE i \in too_long : \A j \in too_long : i <= j) - 1
        IN  /\ ea_mu' = size
            /\ \E randoms \in [1..size -> RandomIndividuals(ea_bounds)] :
                ea_population' =
                    [i \in 1..size |->
                        IF i <= done THEN Adjusted(starting[i], ea_bounds)
                        ELSE randoms[i]]
            /\ ea_pc' = IF too_long = {} THEN "evaluate" ELSE "aborted"
    /\ UNCHANGED <<ea_bounds, ea_landscape, ea_ngen, ea_gen, ea_offspring, ea_union,
                   ea_chosen, ea_crowding, notEvo>>

\* the individuals eaMuPlusLambda evaluates next: the population at first,
\* the offspring afterwards
Evaluated == IF ea_gen = 0 THEN ea_population ELSE ea_offspring

\* eaMuPlusLambda: toolbox.map(toolbox.evaluate, invalid_ind) and the
\* assignment of the fitness values; evaluate raises IndexError for a
\* genome shorter than the run's template needs
EvoEvaluate ==
    /\ ea_pc = "evaluate"
    /\ ea_pc' = IF \E i \in 1..Len(Evaluated) : Len(Evaluated[i]) < Len(ea_bounds)
                THEN "aborted"
                ELSE IF ea_gen = 0 THEN "vary" ELSE "select"
    /\ UNCHANGED <<ea_bounds, ea_landscape, ea_mu, ea_ngen, ea_gen, ea_population,
                   ea_offspring, ea_union, ea_chosen, ea_crowding, notEvo>>

\* eaMuPlusLambda, the start of generation gen: varOr(population, toolbox,
\* lambda_, cxpb, mutpb); random.sample(population, 2) raises ValueError
\* for a population of one individual
EvoVary ==
    /\ ea_pc = "vary"
    /\ ea_gen' = ea_gen + 1
    /\ \/ /\ ea_offspring' \in [1..ea_mu -> varOr_children(ea_population, ea_bounds)]
          /\ ea_pc' = "evaluate"
       \/ /\ Len(ea_population) < 2
          /\ ea_offspring' = <<>>
          /\ ea_pc' = "aborted"
    /\ ea_union' = <<>>
    /\ ea_chosen' = <<>>
    /\ ea_crowding' = <<>>
    /\ UNCHANGED <<ea_bounds, ea_landscape, ea_mu, ea_ngen, ea_population, notEvo>>

\* eaMuPlusLambda: population[:] = toolbox.select(population + offspring, mu)
EvoSelect ==
    /\ ea_pc = "select"
    /\ LET union == ea_population \o ea_offspring
           chosen == selNSGA2(fitness_values(union), ea_mu)
       IN  /\ ea_union' = union
           /\ ea_chosen' = chosen
           /\ ea_crowding' = crowding_dist(fitness_values(union), ea_mu)
           /\ ea_population' = [i \in 1..Len(chosen) |-> union[chosen[i]]]
    /\ ea_offspring' = <<>>
    /\ ea_pc' = IF ea_gen < ea_ngen THEN "vary" ELSE "done"
    /\ UNCHANGED <<ea_bounds, ea_landscape, ea_mu, ea_ngen, ea_gen, notEvo>>

EvoNext ==
    \/ EvoSeed
    \/ EvoEvaluate
    \/ EvoVary
    \/ EvoSelect

\* ------------------------------------------------------- specifications
CodecParked ==
    /\ config = NoConfig /\ template = NoConfig /\ individual = <<>>
    /\ decoded = NoConfig /\ cpc = "parked"

FitParked ==
    /\ analysis = NoPrev /\ limits = NoPrev /\ scoring = <<>>
    /\ fitness = NoFitness /\ prev = NoPrev /\ fpc = "parked"

OpParked ==
    /\ low = <<>> /\ up = <<>> /\ ind1 = <<>> /\ ind2 = <<>>
    /\ deap = <<>> /\ opc = "parked"

SeedParked ==
    /\ seeds = <<>> /\ cfgs = <<>> /\ starting_individuals = <<>>
    /\ configured_size = 0 /\ population_size = 0 /\ param_bounds = <<>>
    /\ sampled = <<>> /\ population = <<>> /\ logged = 0
    /\ raised_at = "none" /\ spc = "parked"

RunParked ==
    /\ pc = "parked" /\ shm = <<>> /\ evaluator_bound = FALSE /\ sigints = 0
    /\ raised = FALSE /\ iters = 0 /\ n_seeds = 0 /\ mu = 0 /\ pop_len = 0
    /\ ngen = 0 /\ gen = 0 /\ pending = 0 /\ left_by = "parked"

PoolParked ==
    /\ main_pc = "parked" /\ evaluator = <<>> /\ shared_np = <<>>
    /\ segments = <<>> /\ batch_no = 0 /\ taskq = <<>> /\ workers = <<>>
    /\ map_result = <<>> /\ results_file = <<>> /\ interrupts = 0

EvoParked ==
    /\ ea_pc = "parked" /\ ea_bounds = <<>> /\ ea_landscape = <<>> /\ ea_mu = 0
    /\ ea_ngen = 0 /\ ea_gen = 0 /\ ea_population = <<>> /\ ea_offspring = <<>>
    /\ ea_union = <<>> /\ ea_chosen = <<>> /\ ea_crowding = <<>>

InitCodec ==
    CodecInit /\ FitParked /\ OpParked /\ SeedParked /\ RunParked /\ PoolParked
    /\ EvoParked
SpecCodec == InitCodec /\ [][CodecNext]_vars

InitFit ==
    FitInit /\ CodecParked /\ OpParked /\ SeedParked /\ RunParked /\ PoolParked
    /\ EvoParked
SpecFit == InitFit /\ [][FitNext]_vars

InitOps ==
    OpInit /\ CodecParked /\ FitParked /\ SeedParked /\ RunParked /\ PoolParked
    /\ EvoParked
SpecOps == InitOps /\ [][OpNext]_vars

InitSeed ==
    SeedInit /\ CodecParked /\ FitParked /\ OpParked /\ RunParked /\ PoolParked
    /\ EvoParked
SpecSeed == InitSeed /\ [][SeedNext]_vars

Init ==
    RunInit /\ CodecParked /\ FitParked /\ OpParked /\ SeedParked /\ PoolParked
    /\ EvoParked
Spec == Init /\ [][Next]_vars

InitPool ==
    PoolInit /\ CodecParked /\ FitParked /\ OpParked /\ SeedParked /\ RunParked
    /\ EvoParked
SpecPool == InitPool /\ [][PoolNext]_vars

InitEvo ==
    EvoInit /\ CodecParked /\ FitParked /\ OpParked /\ SeedParked /\ RunParked
    /\ PoolParked
SpecEvo == InitEvo /\ [][EvoNext]_vars

\* ================================================================ claims
\* C1 as stated: when the process has exited, no segment is still linked
\* and none was unlinked more than once.
C1_UnlinkedExactlyOnce ==
    pc = "exited" =>
        \A s \in Segments : shm[s].state # "linked" /\ shm[s].unlinks <= 1

\* C2 as stated: a run that got a SIGINT has, when the process has exited,
\* closed and unlinked every segment it created.
C2_InterruptedRunCleansUp ==
    (pc = "exited" /\ sigints > 0) =>
        \A s \in Segments :
            shm[s].state # "absent" => shm[s].closed /\ shm[s].state = "unlinked"

\* the configuration's long and short name sets both equal the template's
ParamsMatch ==
    /\ DOMAIN template.bot.long = DOMAIN template.bot.short
    /\ DOMAIN config.bot.long = DOMAIN template.bot.long
    /\ DOMAIN config.bot.short = DOMAIN template.bot.long

\* the number of names of S that sort before k
RankIn(S, k) == Cardinality({j \in S : j < k})

\* C3: for a configuration whose long and short parameter name sets equal
\* the template's, decoding its encoding gives back every long and short
\* parameter with its own value (the other sections are the template's),
\* and the genome holds 2 x |names| values: the long values in sorted-name
\* order, then the short values in sorted-name order.
C3_RoundTrip ==
    ParamsMatch =>
        LET names == DOMAIN template.bot.long
            n == Cardinality(names)
        IN  /\ cpc # "IndexError"
            /\ cpc # "start" =>
                /\ Len(individual) = 2 * n
                /\ \A k \in names :
                    /\ individual[1 + RankIn(names, k)] = config.bot.long[k]
                    /\ individual[n + 1 + RankIn(names, k)] = config.bot.short[k]
            /\ cpc = "decoded" =>
                /\ decoded.bot = config.bot
                /\ decoded.rest = template.rest
                /\ (config.rest = template.rest => decoded = config)

C3_Witness ==
    /\ ParamsMatch
    /\ cpc = "decoded"
    /\ Cardinality(DOMAIN config.bot.long) = NumParams
    /\ \E k \in DOMAIN config.bot.long : config.bot.long[k] # config.bot.short[k]
    /\ config.bot.long[1] # config.bot.long[NumParams]

\* the excess of a constrained statistic over its lower bound
Excess(rec, key) == Max(limits[key], rec[key]) - limits[key]

Disqualified ==
    \/ analysis.drawdown_worst >= 10
    \/ analysis.equity_balance_diff_max < 1

WeightedExcess ==
      10000 * Excess(analysis, "drawdown_worst")
    + 1000 * Excess(analysis, "equity_balance_diff_mean")
    + 100 * Excess(analysis, "loss_profit_ratio")

\* C5: with drawdown_worst >= 1.0 or equity_balance_diff_max < 0.1 both
\* scores are the constraint modifier alone; otherwise score k is the
\* modifier minus the k-th configured scoring metric; the modifier is the
\* weighted sum of the three constrained statistics' excesses over their
\* lower bounds.
C5_CalcFitness ==
    fpc = "scored" =>
        /\ fitness.modifier = WeightedExcess
        /\ Disqualified =>
            fitness.w_0 = WeightedExcess /\ fitness.w_1 = WeightedExcess
        /\ ~Disqualified =>
            /\ fitness.w_0 = WeightedExcess - analysis[scoring[1]]
            /\ fitness.w_1 = WeightedExcess - analysis[scoring[2]]

C5_Witness ==
    /\ fpc = "scored"
    /\ analysis.drawdown_worst < 10
    /\ analysis.equity_balance_diff_max < 1
    /\ analysis[scoring[1]] # 0
    /\ analysis[scoring[2]] # analysis[scoring[1]]
    /\ fitness.w_0 > 0

\* the current record violates the drawdown constraint; the previous one
\* violates the loss/profit constraint and no other
DrawdownAgainstLossProfit ==
    /\ fpc = "scored"
    /\ prev.scored
    /\ Excess(analysis, "drawdown_worst") > 0
    /\ Excess(prev, "drawdown_worst") = 0
    /\ Excess(prev, "equity_balance_diff_mean") = 0
    /\ Excess(prev, "loss_profit_ratio") > 0

\* C6 as stated: any violation of the drawdown constraint gives a strictly
\* larger modifier than any violation of the loss/profit constraint alone.
C6_AnyMagnitude ==
    DrawdownAgainstLossProfit => fitness.modifier > prev.modifier

\* C6, amended: a record that exceeds the drawdown bound by d > 0 has a
\* strictly larger modifier than a record that exceeds only the loss/profit
\* bound, by l, whenever l < 100 * d (the ratio 10^4 / 10^2 of the weights).
C6_WithinWeightRatio ==
    (/\ DrawdownAgainstLossProfit
     /\ Excess(prev, "loss_profit_ratio") < 100 * Excess(analysis, "drawdown_worst"))
        => fitness.modifier > prev.modifier

C6_Witness ==
    /\ DrawdownAgainstLossProfit
    /\ Excess(prev, "loss_profit_ratio") < 100 * Excess(analysis, "drawdown_worst")
    /\ Excess(prev, "loss_profit_ratio") > Excess(analysis, "drawdown_worst")
    /\ fitness.modifier > prev.modifier

\* the seed files that load and that format_config accepts
Usable == {i \in 1..Len(seeds) : seeds[i].loads /\ seeds[i].formats}

\* the distinct genomes the usable seeds encode to
SeedGenomes == {config_to_individual(seeds[i].cfg) : i \in Usable}

Populated == spc \in {"populated", "evaluated"} \/ raised_at = "evaluate"

\* a value clamped into [lo, hi]
Clamped(x, lo, hi) == IF x < lo THEN lo ELSE IF x > hi THEN hi ELSE x

\* individual i of the population is seed i, every value clamped into the
\* interval of its dimension
HoldsSeed(i) ==
    /\ Len(starting_individuals[i]) <= Len(param_bounds)
    /\ Len(population[i]) = Len(starting_individuals[i])
    /\ \A z \in 1..Len(starting_individuals[i]) :
        population[i][z] = Clamped(starting_individuals[i][z],
                                   param_bounds[z][1], param_bounds[z][2])

\* C7 as stated: once the seeds were written into the population, it has
\* max(P, N) individuals, the first N are the N seeds clamped into the
\* bounds, and the others are the sampled ones.
C7_InitialPopulation ==
    (Populated \/ raised_at = "clamp") =>
        LET N == Len(starting_individuals)
        IN  /\ population_size = Max(configured_size, N)
            /\ Len(population) = Max(configured_size, N)
            /\ \A i \in 1..N : HoldsSeed(i)
            /\ \A i \in (N + 1)..Len(population) : population[i] = sampled[i]

\* C8: configs_to_individuals returns exactly one individual for every
\* distinct genome the usable seeds encode to, and nothing else; in the
\* initial population the seeds take exactly that many places.
C8_SeedDeduplication ==
    /\ spc \notin {"start", "loaded"} =>
        /\ Len(starting_individuals) = Cardinality(SeedGenomes)
        /\ \A g \in SeedGenomes :
            Cardinality({i \in 1..Len(starting_individuals) :
                            starting_individuals[i] = g}) = 1
    /\ Populated =>
        /\ \A i \in 1..Len(population) :
            i > Cardinality(SeedGenomes) => population[i] = sampled[i]
        /\ \A i \in 1..Cardinality(SeedGenomes) : HoldsSeed(i)

C8_Witness ==
    /\ spc = "populated"
    /\ \E i, j \in Usable :
        /\ seeds[i].cfg # seeds[j].cfg
        /\ config_to_individual(seeds[i].cfg) = config_to_individual(seeds[j].cfg)
    /\ Len(seeds) = MaxSeeds
    /\ Len(starting_individuals) = 1
    /\ Len(population) > 1
    /\ population[2] = sampled[2]

\* the seeds that load, format and have the run's parameters on both sides
ValidSeeds ==
    {i \in Usable : /\ DOMAIN seeds[i].cfg.bot.long = RunParams
                     /\ DOMAIN seeds[i].cfg.bot.short = RunParams}

\* C10 as stated: no seed makes the run raise, and the run goes on with
\* exactly the valid seeds.
C10_SeedErrorsIsolated ==
    /\ raised_at = "none"
    /\ spc = "evaluated" =>
        {starting_individuals[i] : i \in 1..Len(starting_individuals)}
            = {config_to_individual(seeds[i].cfg) : i \in ValidSeeds}

\* C9 as stated: the number of generations is ceil(iters / population_size).
C9_CeilGenerations ==
    ngen > 0 => ngen = (iters + pop_len - 1) \div pop_len

\* C9, amended: the loop runs max(1, floor(iters / population_size))
\* generations, a number fixed when eaMuPlusLambda is called for the
\* (possibly seed-enlarged) population size: the generation counter never
\* passes it, and the loop is left exactly when the counter has reached it.
C9_FloorGenerations ==
    /\ pc \in {"map", "vary", "extract"} =>
        /\ pop_len = Max(mu, n_seeds)
        /\ (iters < pop_len => ngen = 1)
        /\ (iters >= pop_len =>
                ngen * pop_len <= iters /\ iters < (ngen + 1) * pop_len)
        /\ gen <= ngen
    /\ pc = "vary" => gen < ngen
    /\ pc = "extract" => gen = ngen

C9_Witness ==
    /\ pc = "extract"
    /\ gen > 1
    /\ pop_len = n_seeds
    /\ n_seeds > 1
    /\ iters > ngen * pop_len

FixedDims == {i \in DOMAIN low : low[i] = up[i]}

\* C4: after the crossover wrapper both children, and after the mutation
\* wrapper the mutated individual, hold low[i] at every dimension i with
\* low[i] = up[i], whatever the individuals held there before and whatever
\* the DEAP operator computed there.
C4_FixedDimensions ==
    /\ opc = "mated" => \A i \in FixedDims : ind1[i] = low[i] /\ ind2[i] = low[i]
    /\ opc = "mutated" => \A i \in FixedDims : ind1[i] = low[i]

C4_Witness ==
    /\ opc = "mated"
    /\ \E i \in FixedDims :
        /\ deap[1][i] # low[i]
        /\ deap[2][i] # low[i]
        /\ deap[1][i] # deap[2][i]
    /\ \E i \in DOMAIN low : low[i] # up[i] /\ ind1[i] # ind2[i]

\* SharedMemory(create=True) raised in Evaluator.__init__: the try body
\* raised while the second segment did not exist yet
AllocationFailed == raised /\ shm["preferred_coins"].state = "absent"

\* C15 as stated: when the allocation of the first or of the second segment
\* fails, no evaluation is ever started, and the process exits through the
\* sys.exit(0) that ends the finally block (no further error) with no
\* segment left linked.
C15_AllocationFailureCleansUp ==
    AllocationFailed =>
        /\ ngen = 0 /\ pending = 0
        /\ pc = "exited" =>
            /\ left_by = "SystemExit"
            /\ \A s \in Segments : shm[s].state # "linked"

\* the positions of the result log that hold the record text of evaluation t
RecordsOf(t) ==
    {i \in 1..Len(results_file) :
        results_file[i].ch = "json" /\ results_file[i].eval = t}

\* the record at position i of the log is complete: statistics out of the
\* engine, both scores, the configuration the genome `ind` decodes to, and
\* the newline that ends the line
CompleteRecord(i, ind, sc) ==
    /\ results_file[i].analysis \in PoolAnalyses
    /\ results_file[i].scores = sc
    /\ \A k \in RunParams :
        /\ results_file[i].config.bot.long[k] = ind[1 + RankIn(RunParams, k)]
        /\ results_file[i].config.bot.short[k] =
               ind[Cardinality(RunParams) + 1 + RankIn(RunParams, k)]
    /\ i < Len(results_file)
    /\ results_file[i + 1].ch = "\n"
    /\ results_file[i + 1].eval = results_file[i].eval

\* C11: in every state, also where the run is interrupted or has failed,
\* every evaluation whose score pair the coordinator has received has exactly
\* one record in the result log, complete and carrying that score pair, and
\* no evaluation has more than one record.
C11_RecordBeforeReturn ==
    \A t \in 1..Len(map_result) :
        /\ Cardinality(RecordsOf(t)) <= 1
        /\ map_result[t].state = "ok" =>
            /\ Cardinality(RecordsOf(t)) = 1
            /\ \A i \in RecordsOf(t) :
                CompleteRecord(i, map_result[t].individual, map_result[t].scores)

C11_Witness ==
    /\ main_pc = "exited"
    /\ interrupts > 0
    /\ \E t \in 1..Len(map_result) : map_result[t].state = "ok"
    /\ \E t \in 1..Len(map_result) : map_result[t].state = "pending"

\* C12: while the coordinator makes or dispatches the next batch, no task is
\* queued and no worker is inside an evaluation; a worker inside an
\* evaluation works on a task of the batch handed to toolbox.map last.
C12_GenerationBarrier ==
    /\ main_pc \in {"generation", "map_call"} =>
        /\ taskq = <<>>
        /\ \A w \in PoolWorkers : workers[w].step = "idle"
    /\ \A w \in PoolWorkers :
        workers[w].step # "idle" => map_result[workers[w].task].batch = batch_no

C12_Witness ==
    /\ main_pc = "map_wait"
    /\ batch_no = 2
    /\ \E w \in PoolWorkers : workers[w].step = "backtest"
    /\ \E t \in 1..Len(map_result) : map_result[t].batch = 1 /\ map_result[t].state = "ok"

RECURSIVE SplitLines(_)
\* the lines of a text: every line up to and with its newline, and what
\* follows the last newline, if anything
SplitLines(text) ==
    IF text = <<>> THEN <<>>
    ELSE LET ends == {i \in 1..Len(text) : text[i].ch = "\n"}
         IN  IF ends = {} THEN <<text>>
             ELSE LET e == CHOOSE i \in ends : \A j \in ends : i <= j
                  IN  <<SubSeq(text, 1, e)>> \o SplitLines(SubSeq(text, e + 1, Len(text)))

\* a line that is the whole record of one evaluation and nothing else
WholeRecord(line) ==
    /\ Len(line) = 2
    /\ line[1].ch = "json"
    /\ line[2].ch = "\n"
    /\ line[1].eval = line[2].eval

\* the evaluations that have closed the log file
Appended ==
    {t \in 1..Len(map_result) :
        \/ map_result[t].state = "ok"
        \/ \E w \in PoolWorkers : workers[w].task = t /\ workers[w].step = "return"}

\* C13: under every interleaving of the workers, every line of the result
\* log is the whole record of one evaluation, no two lines belong to the
\* same evaluation, and every evaluation that has closed the file has its
\* line.
C13_AtomicLines ==
    LET lines == SplitLines(results_file)
    IN  /\ \A n \in 1..Len(lines) : WholeRecord(lines[n])
        /\ \A n, m \in 1..Len(lines) : n # m => lines[n][1].eval # lines[m][1].eval
        /\ \A t \in Appended : \E n \in 1..Len(lines) : lines[n][1].eval = t

C13_Witness ==
    /\ Len(SplitLines(results_file)) = 2
    /\ results_file[1].eval = 2
    /\ \E w \in PoolWorkers : workers[w].step = "return" /\ workers[w].task = 2
    /\ \E w \in PoolWorkers : workers[w].step = "return" /\ workers[w].task = 1

\* Evaluator.cleanup has unlinked a segment
CleanupStarted == \E s \in Segments : segments[s] = "unlinked"

\* C17 as stated: once cleanup has started, no task waits for a worker and
\* no worker is inside an evaluation that has yet to read, or is reading,
\* the shared arrays.
C17_NoUseAfterRelease ==
    CleanupStarted =>
        /\ taskq = <<>>
        /\ \A w \in PoolWorkers : workers[w].step \notin {"decode", "backtest"}

\* C18: no step of the coordinator or of a worker changes the Evaluator's
\* template configuration, its exchange and backtest parameters or the
\* contents of the shared arrays; a worker's evaluation leaves its genome as
\* it was handed over; and a step leaves the result log as it is or appends
\* one record to it.
C18_EvaluationFrame ==
    [][/\ evaluator' = evaluator
       /\ shared_np' = shared_np
       /\ \A t \in 1..Len(map_result) :
            map_result'[t].individual = map_result[t].individual
       /\ \A w \in PoolWorkers :
            workers'[w].task = workers[w].task =>
                workers'[w].individual = workers[w].individual
       /\ \/ results_file' = results_file
          \/ /\ Len(results_file') = Len(results_file) + 2
             /\ SubSeq(results_file', 1, Len(results_file)) = results_file
             /\ WholeRecord(SubSeq(results_file', Len(results_file) + 1,
                                   Len(results_file')))]_vars

C18_Witness ==
    /\ Len(results_file) = 4
    /\ evaluator.config = RunTemplate
    /\ results_file[1].config.bot # RunTemplate.bot
    /\ results_file[3].config.bot # results_file[1].config.bot
    /\ \A t \in 1..Len(map_result) : map_result[t].state = "ok"

\* an individual has every dimension of the bounds, each within its
\* [low, high]; a dimension with low = high is that bound exactly
WithinBounds(ind, bounds) ==
    /\ Len(ind) = Len(bounds)
    /\ \A z \in 1..Len(bounds) : bounds[z][1] <= ind[z] /\ ind[z] <= bounds[z][2]

\* C14 as stated: in the initial population and after every generation,
\* every individual of the population has every dimension within its
\* [low, high] interval.
C14_PopulationWithinBounds ==
    \A i \in 1..Len(ea_population) : WithinBounds(ea_population[i], ea_bounds)

\* the fitness values of the union the last selection chose from
UnionFitness == fitness_values(ea_union)

RECURSIVE ParetoRank(_, _)
\* the Pareto rank of an individual of a list: 1 for an individual no other
\* dominates, else one more than the largest rank of those that dominate it
ParetoRank(fs, i) ==
    LET dominators == {j \in 1..Len(fs) : dominates(fs[j], fs[i])}
        ranks == {ParetoRank(fs, j) : j \in dominators}
    IN  IF dominators = {} THEN 1
        ELSE 1 + (CHOOSE r \in ranks : \A q \in ranks : q <= r)

\* the places, in the union, of the retained and of the discarded
Retained == {ea_chosen[i] : i \in 1..Len(ea_chosen)}
Discarded == (1..Len(ea_union)) \ Retained

\* the largest rank among the retained
LastAdmittedRank ==
    CHOOSE r \in {ParetoRank(UnionFitness, i) : i \in Retained} :
        \A i \in Retained : ParetoRank(UnionFitness, i) <= r

\* C16: after the selection of a generation the population has exactly mu
\* individuals, each taken from its own place of the union of the parents
\* and the offspring; no discarded individual has a lower Pareto rank than a
\* retained one; and within the last admitted rank no discarded individual
\* has a larger crowding distance than a retained one.
C16_SurvivorSelection ==
    ea_chosen # <<>> =>
        /\ Len(ea_population) = ea_mu
        /\ Len(ea_chosen) = ea_mu
        /\ Cardinality(Retained) = ea_mu
        /\ Retained \subseteq 1..Len(ea_union)
        /\ \A i \in 1..ea_mu : ea_population[i] = ea_union[ea_chosen[i]]
        /\ \A d \in Discarded : \A r \in Retained :
            /\ ParetoRank(UnionFitness, d) >= ParetoRank(UnionFitness, r)
            /\ (/\ ParetoRank(UnionFitness, d) = LastAdmittedRank
                /\ ParetoRank(UnionFitness, r) = LastAdmittedRank)
               => ea_crowding[r] >= ea_crowding[d]

\* a selection that dropped an individual of a worse rank and cut the last
\* admitted rank by the crowding distance, keeping a later individual of
\* the union over an earlier one
C16_Witness ==
    /\ ea_chosen # <<>>
    /\ \E d \in Discarded : ParetoRank(UnionFitness, d) > LastAdmittedRank
    /\ \E d \in Discarded : \E r \in Retained :
        /\ ParetoRank(UnionFitness, d) = LastAdmittedRank
        /\ ParetoRank(UnionFitness, r) = LastAdmittedRank
        /\ ea_crowding[r] > ea_crowding[d]
        /\ d < r
====
